---- MODULE Spec2Model ----
(***************************************************************************)
(* The telemetry subscription multiplexer of HAPLite-API:                  *)
(*   src/src/services/websocketManager.js  (WebSocketManager)              *)
(*   src/src/services/mikrotikService.js   (MikrotikService, the instance  *)
(*                                          owned by the manager)          *)
(* One state machine: the manager's registry (intervals, clientSettings,   *)
(* connectionRetryAttempts), the runtime's table of live interval timers,  *)
(* the service's bandwidth cache, and the asynchronous calls in flight.    *)
(* A step is one run of the event loop: a socket event handler, a timer    *)
(* callback or the continuation of an awaited device response, together    *)
(* with the microtasks it drains.                                          *)
(***************************************************************************)
EXTENDS Integers, Sequences, FiniteSets, Bags, TLC

\* ------------------------------------------------------------------ bounds
MaxTime == 2000        \* the clock stops here
ScenarioTime == 5000   \* the clock stops here in the two-subscriber scenario
MaxTimers == 5         \* interval timers live at once
MaxTasks == 1          \* asynchronous fetches in flight at once
CacheTasks == 2        \* the same, where overlapping fetches are studied
MaxSessions == 3       \* RouterOSAPI objects created over a run
MaxCalls == 2          \* callers of the device gateway at once
DownTime == 12000      \* the clock stops here while the device is down
OptionsTime == 200     \* the clock stops here where client options vary
MaxSamples == 310      \* bandwidth samples stored over a run
ResubTime == 5000      \* the clock stops here where the interval is changed
MaxAwaiting == 2       \* subscribe handlers of server.js awaiting at once
MaxBroadcasts == 3     \* broadcast intervals of server.js live at once

\* ------------------------------------------------------- program constants
cacheTimeout == 1000
maxRetryAttempts == 5
DefaultBandwidthInterval == 2000
DefaultUsersInterval == 5000
maxAttempts == 3
historyLimit == 300
MaxSnapshot == 5

\* the clock is read at multiples of CoarseStep; the two-subscriber scenario
\* reads it at multiples of FineStep
CoarseStep == DefaultBandwidthInterval
FineStep == cacheTimeout

Clients == {"c1", "c2"}
Kinds == {"bandwidth", "users"}
DefaultInterfaces == {"ether1", "wlan1", "bridge"}
\* what a client may send as options.interfaces
FilterChoices == {DefaultInterfaces}
\* what a client may send as options.interval
IntervalChoices == {DefaultBandwidthInterval}
\* what a client may send as data.type of update-interval
TypeChoices == {"bandwidth", "users", "cpu"}
\* the clients that ask for the users feed; the others only watch bandwidth
UsersViewers == {"c1"}
\* where the options of the clients vary: an interval far below the default
\* besides the default, a filter of the client's own besides the default
SubMinimumInterval == 100
OptionIntervals == {SubMinimumInterval, DefaultBandwidthInterval}
OptionFilters == {DefaultInterfaces, {"ether1"}}
\* the interfaces a bandwidth snapshot may cover; none at all is possible
SnapshotChoices == {{}, {"ether1"}}

VARIABLES
  now,                     \* Date.now()
  sockets,                 \* per socket id: "connected" or "gone"
  intervals,               \* this.intervals: Map<socketId, Map<type, intervalId>>
  clientSettings,          \* this.clientSettings: Map<socketId, {interval, interfaces}>
  connectionRetryAttempts, \* this.connectionRetryAttempts
  timers,                  \* the runtime's live setInterval timers
  tasks,                   \* bag of the asynchronous fetches in flight
  bandwidthCache,          \* this.bandwidthCache
  lastCacheTime,           \* this.lastCacheTime
  last,                    \* the step just taken: handler, socket, emitted event
  configured,              \* this.config has host, user and password
  conn,                    \* this.conn: 0 for null, else the RouterOSAPI object
  sessions,                \* per RouterOSAPI object: the state of its session
  calls,                   \* per caller: where it stands in connect/retryOperation
  bandwidthHistory,        \* this.bandwidthHistory
  samplesTaken,            \* how many bandwidth samples were ever stored
  queues,                  \* the device's simple queues
  addressLists,            \* the device's firewall address-list entries
  control,                 \* the one-shot control operation in progress
  bandwidthInterval,       \* server.js: bandwidthInterval, 0 for null
  connectedClients,        \* server.js: connectedClients
  isSubscribed,            \* server.js: socket.data.isSubscribed, per socket
  broadcasts,              \* the runtime's live timers created by server.js
  awaiting                 \* subscribe handlers at 'await sendBandwidth()'

\* the device gateway of the service: its session handle and who uses it
gatewayVars == <<configured, conn, sessions, calls>>

\* the history of the service, the configuration of the device and the
\* shared broadcast of server.js: no step of the manager or of the gateway
\* touches them
historyVars == <<bandwidthHistory, samplesTaken>>
deviceVars == <<queues, addressLists, control>>
serverVars == <<bandwidthInterval, connectedClients, isSubscribed,
                broadcasts, awaiting>>
sideVars == <<historyVars, deviceVars, serverVars>>

\* the manager, its timers and the cache
managerVars == <<now, sockets, intervals, clientSettings,
                 connectionRetryAttempts, timers, tasks, bandwidthCache,
                 lastCacheTime, last>>

vars == <<now, sockets, intervals, clientSettings, connectionRetryAttempts,
          timers, tasks, bandwidthCache, lastCacheTime, last, configured,
          conn, sessions, calls, bandwidthHistory, samplesTaken, queues,
          addressLists, control, bandwidthInterval, connectedClients,
          isSubscribed, broadcasts, awaiting>>

\* ------------------------------------------------------------ value shapes
NoIds == [k \in Kinds |-> 0]
NoIntervals == [present |-> FALSE, ids |-> NoIds]
NoSettings == [present |-> FALSE, interval |-> 0, interfaces |-> {}]
NoCache == [present |-> FALSE, ifaces |-> {}]

\* a call of getBandwidthUsage or getConnectedUsers that waits for the device;
\* now is the Date.now() it read on entry
Task(feed, c) == [feed |-> feed, client |-> c, now |-> now]

\* at: for a step that settles a fetch, when the call was entered; else 0
Step(op, c, k, wasActive, emit, at) ==
  [op |-> op, client |-> c, kind |-> k, wasActive |-> wasActive,
   emit |-> emit, at |-> at]

\* the RouterOSAPI objects and the callers of the gateway
Sessions == 1..MaxSessions
Calls == 1..MaxCalls

\* a caller of the gateway.  phase: "idle", "connecting" (in connect(), awaits
\* the handshake of the session awaits), "command" (a conn.write on the
\* session via waits for the device), "delay" (retryOperation sleeps),
\* "reconnecting" (retryOperation awaits its forced connect()), "returned",
\* "raised".  attempt counts the invocations of the operation, reconnects the
\* forced reconnects of this retryOperation; err is what was raised.
NoCall == [phase |-> "idle", attempt |-> 0, via |-> 0, awaits |-> 0,
           reconnects |-> 0, err |-> "-"]

\* a one-shot control operation (setSpeedLimit, removeSpeedLimit): the
\* function running, the statement it is at, its arguments, the queue ids it
\* still has to remove, its outcome, and the device as it was at the call
NoControl == [fn |-> "none", pc |-> "idle", ip |-> "-", rx |-> 0, tx |-> 0,
              pending |-> {}, result |-> "none", prev |-> "none",
              before |-> [queues |-> {}, addressLists |-> {}]]

\* the address the control operations are about, the rates a caller may ask
\* for, the block lists unblockUser goes through, in its order
UserIp == "192.168.88.10"
RateChoices == {0, 1000000}
BlockLists == <<"api_blocked", "api_speed_blocked">>

\* a simple queue of the device; limit is <<rx, tx>> of its max-limit
Queue(id, ip, limit) == [id |-> id, target |-> ip, limit |-> limit]

\* what the device may hold for the address before a call: no queue, one
\* left by an earlier limit, or two; and any of the block-list entries
PriorQueues ==
  {{}, {Queue(1, UserIp, <<2000000, 2000000>>)},
   {Queue(1, UserIp, <<2000000, 2000000>>), Queue(2, UserIp, <<1, 1>>)}}
PriorAddressLists ==
  SUBSET {[list |-> BlockLists[j], address |-> UserIp] : j \in 1..2}

\* ------------------------------------------------------------------ helpers
\* this.conn && this.conn.connected
Live(ss, cn) == cn # 0 /\ ss[cn] = "open"

\* new RouterOSAPI(this.config): the next object never used before
FreshSession(ss) ==
  CHOOSE s \in Sessions :
    ss[s] = "unused" /\ \A u \in Sessions : u < s => ss[u] # "unused"

\* connect() can run: a further RouterOSAPI object exists if one is needed
CanConnect(ss, cn) ==
  Live(ss, cn) \/ ~configured \/ \E s \in Sessions : ss[s] = "unused"

\* connect() up to its first wait, with this.conn = cn: the live session is
\* returned; an incomplete configuration raises and empties the handle; else
\* a new session is stored in the handle and its handshake awaited
ConnectEntry(ss, cn) ==
  IF Live(ss, cn)
  THEN [outcome |-> "returned", conn |-> cn, sessions |-> ss, awaits |-> 0]
  ELSE IF ~configured
  THEN [outcome |-> "raised", conn |-> 0, sessions |-> ss, awaits |-> 0]
  ELSE [outcome |-> "awaiting", conn |-> FreshSession(ss),
        sessions |-> [ss EXCEPT ![FreshSession(ss)] = "connecting"],
        awaits |-> FreshSession(ss)]

\* disconnect(): a live session is closed and the handle emptied
Disconnect(ss, cn) ==
  IF Live(ss, cn)
  THEN [sessions |-> [ss EXCEPT ![cn] = "closed"], conn |-> 0]
  ELSE [sessions |-> ss, conn |-> cn]

\* the key (socketId, type) has an entry in this.intervals
Active(ivs, c, k) == ivs[c].present /\ ivs[c].ids[k] # 0

\* live timers created for the key (c, k)
TimersOf(tms, c, k) == {t \in tms : t.client = c /\ t.kind = k}

\* the handle setInterval returns: one no live timer has
FreshId(tms) ==
  CHOOSE i \in 1..(Cardinality(tms) + 1) : \A t \in tms : t.id # i

\* clearInterval(id)
ClearInterval(tms, id) == {t \in tms : t.id # id}

ClearClientIntervalNoCancel(ivs, tms, c, k) ==
  IF Active(ivs, c, k)
  THEN [intervals |-> [ivs EXCEPT ![c].ids[k] = 0], timers |-> tms]
  ELSE [intervals |-> ivs, timers |-> tms]

ClearClientIntervalDropsClient(ivs, tms, c, k) ==
  IF Active(ivs, c, k)
  THEN [intervals |-> [ivs EXCEPT ![c].ids[k] = 0],
        timers |-> ClearInterval(tms, ivs[c].ids[k])]
  ELSE [intervals |-> [ivs EXCEPT ![c] = NoIntervals], timers |-> tms]

\* clearClientInterval(socketId, type): the registry and the timer table after it
ClearClientInterval(ivs, tms, c, k) ==
  IF Active(ivs, c, k)
  THEN [intervals |-> [ivs EXCEPT ![c].ids[k] = 0],
        timers |-> ClearInterval(tms, ivs[c].ids[k])]
  ELSE [intervals |-> ivs, timers |-> tms]

\* if (!this.intervals.has(id)) this.intervals.set(id, new Map());
\* this.intervals.get(id).set(type, intervalId)
RegisterInterval(ivs, c, k, id) ==
  [ivs EXCEPT ![c] = [present |-> TRUE, ids |-> [@.ids EXCEPT ![k] = id]]]

\* setInterval(callback, interval) at the current time
NewTimer(id, c, k, interval) ==
  [id |-> id, client |-> c, kind |-> k, interval |-> interval,
   due |-> now + interval]

\* getBandwidthUsage: the cache test on entry
CacheHit == bandwidthCache.present /\ (now - lastCacheTime) < cacheTimeout

\* the calls for a feed that wait for the device
InFlight(feed) == {r \in BagToSet(tasks) : r.feed = feed}

\* the event sendBandwidthData emits before it first waits for the device
BandwidthEmitOnEntry == IF CacheHit THEN "bandwidth-data" ELSE "none"

\* sendBandwidthData(socket, interfaces) up to its first wait for the device:
\* a cache hit is delivered at once (and resets the retry counter), a miss
\* starts an upstream fetch; cap bounds the fetches in flight
SendBandwidthData(c, cap) ==
  IF CacheHit
  THEN /\ connectionRetryAttempts' = 0
       /\ UNCHANGED tasks
  ELSE /\ BagCardinality(tasks) < cap
       /\ tasks' = tasks (+) SetToBag({Task("bandwidth", c)})
       /\ UNCHANGED connectionRetryAttempts

\* ------------------------------------------------------------------ actions
\* handleBandwidthSubscription(socket, {interval, interfaces}), reached by the
\* event ev
HandleBandwidthSubscription(c, interval, interfaces, ev, cap) ==
  LET cleared == ClearClientInterval(intervals, timers, c, "bandwidth")
      id == FreshId(cleared.timers) IN
  /\ sockets[c] = "connected"
  /\ Cardinality(timers) < MaxTimers
  /\ clientSettings' = [clientSettings EXCEPT ![c] =
         [present |-> TRUE, interval |-> interval, interfaces |-> interfaces]]
  /\ SendBandwidthData(c, cap)
  /\ timers' = cleared.timers \cup {NewTimer(id, c, "bandwidth", interval)}
  /\ intervals' = RegisterInterval(cleared.intervals, c, "bandwidth", id)
  /\ last' = Step(ev, c, "bandwidth", Active(intervals, c, "bandwidth"),
                  BandwidthEmitOnEntry, 0)
  /\ UNCHANGED <<sideVars, gatewayVars, now, sockets, bandwidthCache,
                 lastCacheTime>>

HandleUsersSubscriptionNoClear(c, interval, ev) ==
  LET id == FreshId(timers) IN
  /\ sockets[c] = "connected"
  /\ Cardinality(timers) < MaxTimers
  /\ timers' = timers \cup {NewTimer(id, c, "users", interval)}
  /\ intervals' = RegisterInterval(intervals, c, "users", id)
  /\ last' = Step(ev, c, "users", Active(intervals, c, "users"), "none", 0)
  /\ UNCHANGED <<sideVars, gatewayVars, now, sockets, clientSettings,
                 connectionRetryAttempts, tasks,
                 bandwidthCache, lastCacheTime>>

\* handleUsersSubscription(socket, {interval}), reached by the event ev
HandleUsersSubscription(c, interval, ev) ==
  LET cleared == ClearClientInterval(intervals, timers, c, "users")
      id == FreshId(cleared.timers) IN
  /\ sockets[c] = "connected"
  /\ Cardinality(timers) < MaxTimers
  /\ timers' = cleared.timers \cup {NewTimer(id, c, "users", interval)}
  /\ intervals' = RegisterInterval(cleared.intervals, c, "users", id)
  /\ last' = Step(ev, c, "users", Active(intervals, c, "users"), "none", 0)
  /\ UNCHANGED <<sideVars, gatewayVars, now, sockets, clientSettings,
                 connectionRetryAttempts, tasks,
                 bandwidthCache, lastCacheTime>>

\* socket.on('subscribe-bandwidth', options)
SubscribeBandwidth(c, cap) ==
  \E interval \in IntervalChoices, interfaces \in FilterChoices :
    HandleBandwidthSubscription(c, interval, interfaces,
                                "subscribe-bandwidth", cap)

\* socket.on('subscribe-users', options)
SubscribeUsers(c) ==
  \E interval \in IntervalChoices :
    HandleUsersSubscription(c, interval, "subscribe-users")

UpdateClientIntervalSkipsIdle(c, type, interval, cap) ==
  IF type \notin Kinds
  THEN /\ sockets[c] = "connected"
       /\ last' = Step("update-interval", c, type, FALSE, "error", 0)
       /\ UNCHANGED <<sideVars, gatewayVars, now, sockets, intervals,
                      clientSettings,
                      connectionRetryAttempts, timers, tasks, bandwidthCache,
                      lastCacheTime>>
  ELSE IF ~Active(intervals, c, type)
  THEN /\ sockets[c] = "connected"
       /\ last' = Step("update-interval", c, type, FALSE, "none", 0)
       /\ UNCHANGED <<sideVars, gatewayVars, now, sockets, intervals,
                      clientSettings,
                      connectionRetryAttempts, timers, tasks, bandwidthCache,
                      lastCacheTime>>
  ELSE IF type = "bandwidth"
  THEN HandleBandwidthSubscription(c, interval,
         IF clientSettings[c].present THEN clientSettings[c].interfaces
                                      ELSE DefaultInterfaces,
         "update-interval", cap)
  ELSE HandleUsersSubscription(c, interval, "update-interval")

UpdateClientIntervalDefaultFilter(c, type, interval, cap) ==
  IF type \notin Kinds
  THEN /\ sockets[c] = "connected"
       /\ last' = Step("update-interval", c, type, FALSE, "error", 0)
       /\ UNCHANGED <<sideVars, gatewayVars, now, sockets, intervals,
                      clientSettings,
                      connectionRetryAttempts, timers, tasks, bandwidthCache,
                      lastCacheTime>>
  ELSE IF type = "bandwidth"
  THEN HandleBandwidthSubscription(c, interval, DefaultInterfaces,
                                   "update-interval", cap)
  ELSE HandleUsersSubscription(c, interval, "update-interval")

\* updateClientInterval(socket, {type, interval})
UpdateClientInterval(c, type, interval, cap) ==
  IF type \notin Kinds
  THEN /\ sockets[c] = "connected"
       /\ last' = Step("update-interval", c, type, FALSE, "error", 0)
       /\ UNCHANGED <<sideVars, gatewayVars, now, sockets, intervals,
                      clientSettings,
                      connectionRetryAttempts, timers, tasks, bandwidthCache,
                      lastCacheTime>>
  ELSE IF type = "bandwidth"
  THEN HandleBandwidthSubscription(c, interval,
         IF clientSettings[c].present THEN clientSettings[c].interfaces
                                      ELSE DefaultInterfaces,
         "update-interval", cap)
  ELSE HandleUsersSubscription(c, interval, "update-interval")

\* socket.on('update-interval', data)
UpdateInterval(c, cap) ==
  \E type \in (IF c \in UsersViewers THEN TypeChoices
                                     ELSE TypeChoices \ {"users"}),
     interval \in IntervalChoices :
    UpdateClientInterval(c, type, interval, cap)

\* the same three events where the options vary
OnSubscribeBandwidth(c, cap) ==
  \E interval \in OptionIntervals, interfaces \in OptionFilters :
    HandleBandwidthSubscription(c, interval, interfaces,
                                "subscribe-bandwidth", cap)

OnSubscribeUsers(c) ==
  \E interval \in OptionIntervals :
    HandleUsersSubscription(c, interval, "subscribe-users")

OnUpdateInterval(c, cap) ==
  \E type \in TypeChoices, interval \in OptionIntervals :
    UpdateClientInterval(c, type, interval, cap)

UnsubscribeKeepsTimer(c, k) ==
  LET cleared == ClearClientInterval(intervals, timers, c, k) IN
  /\ intervals' = cleared.intervals
  /\ timers' = timers
  /\ last' = Step("unsubscribe", c, k, Active(intervals, c, k), "none", 0)
  /\ UNCHANGED <<sideVars, gatewayVars, now, sockets, clientSettings,
                 connectionRetryAttempts, tasks, bandwidthCache,
                 lastCacheTime>>

\* clearClientInterval(socketId, type) called on its own: unsubscribe
Unsubscribe(c, k) ==
  LET cleared == ClearClientInterval(intervals, timers, c, k) IN
  /\ intervals' = cleared.intervals
  /\ timers' = cleared.timers
  /\ last' = Step("unsubscribe", c, k, Active(intervals, c, k), "none", 0)
  /\ UNCHANGED <<sideVars, gatewayVars, now, sockets, clientSettings,
                 connectionRetryAttempts, tasks,
                 bandwidthCache, lastCacheTime>>

\* the ids handleDisconnect and cleanup pass to clearInterval for a socket
RegisteredIds(ivs, c) ==
  IF ivs[c].present THEN {ivs[c].ids[k] : k \in Kinds} \ {0} ELSE {}

HandleDisconnectLeak(c) ==
  /\ sockets[c] = "connected"
  /\ sockets' = [sockets EXCEPT ![c] = "gone"]
  /\ intervals' = [intervals EXCEPT ![c] = NoIntervals]
  /\ clientSettings' = [clientSettings EXCEPT ![c] = NoSettings]
  /\ last' = Step("disconnect", c, "-", RegisteredIds(intervals, c) # {},
                  "none", 0)
  /\ UNCHANGED <<sideVars, gatewayVars, now, connectionRetryAttempts, timers,
                 tasks,
                 bandwidthCache,
                 lastCacheTime>>

HandleDisconnectBandwidthOnly(c) ==
  /\ sockets[c] = "connected"
  /\ sockets' = [sockets EXCEPT ![c] = "gone"]
  /\ timers' = ClearClientInterval(intervals, timers, c, "bandwidth").timers
  /\ intervals' = [intervals EXCEPT ![c] = NoIntervals]
  /\ clientSettings' = [clientSettings EXCEPT ![c] = NoSettings]
  /\ last' = Step("disconnect", c, "-", RegisteredIds(intervals, c) # {},
                  "none", 0)
  /\ UNCHANGED <<sideVars, gatewayVars, now, connectionRetryAttempts, tasks,
                 bandwidthCache,
                 lastCacheTime>>

HandleDisconnectKeepsSettings(c) ==
  /\ sockets[c] = "connected"
  /\ sockets' = [sockets EXCEPT ![c] = "gone"]
  /\ timers' = {t \in timers : t.id \notin RegisteredIds(intervals, c)}
  /\ intervals' = [intervals EXCEPT ![c] = NoIntervals]
  /\ last' = Step("disconnect", c, "-", RegisteredIds(intervals, c) # {},
                  "none", 0)
  /\ UNCHANGED <<sideVars, gatewayVars, now, connectionRetryAttempts, tasks,
                 bandwidthCache, lastCacheTime, clientSettings>>

\* handleDisconnect(socket)
HandleDisconnect(c) ==
  /\ sockets[c] = "connected"
  /\ sockets' = [sockets EXCEPT ![c] = "gone"]
  /\ timers' = {t \in timers : t.id \notin RegisteredIds(intervals, c)}
  /\ intervals' = [intervals EXCEPT ![c] = NoIntervals]
  /\ clientSettings' = [clientSettings EXCEPT ![c] = NoSettings]
  /\ last' = Step("disconnect", c, "-", RegisteredIds(intervals, c) # {},
                  "none", 0)
  /\ UNCHANGED <<sideVars, gatewayVars, now, connectionRetryAttempts, tasks,
                 bandwidthCache,
                 lastCacheTime>>

\* cleanup(), on SIGTERM or an uncaught exception
Cleanup ==
  /\ timers' = {t \in timers :
                  \A c \in Clients : t.id \notin RegisteredIds(intervals, c)}
  /\ intervals' = [c \in Clients |-> NoIntervals]
  /\ clientSettings' = [c \in Clients |-> NoSettings]
  /\ last' = Step("cleanup", "c1", "-", timers # {}, "none", 0)
  /\ sessions' = Disconnect(sessions, conn).sessions
  /\ conn' = Disconnect(sessions, conn).conn
  /\ UNCHANGED <<now, sockets, connectionRetryAttempts, tasks, bandwidthCache,
                 lastCacheTime, configured, calls, sideVars>>

\* the timer t has fired and waits interval milliseconds again
Rearmed(tms, t) == (tms \ {t}) \cup {[t EXCEPT !.due = t.due + t.interval]}

\* the callback of a bandwidth interval: await this.sendBandwidthData(...)
TickBandwidth(t, cap) ==
  /\ t \in timers /\ t.kind = "bandwidth" /\ t.due <= now
  /\ SendBandwidthData(t.client, cap)
  /\ timers' = Rearmed(timers, t)
  /\ last' = Step("tick", t.client, "bandwidth", TRUE, BandwidthEmitOnEntry,
                  0)
  /\ UNCHANGED <<sideVars, gatewayVars, now, sockets, intervals,
                 clientSettings, bandwidthCache,
                 lastCacheTime>>

\* the callback of a users interval: await getConnectedUsers(), which has no
\* cache and always polls the device
TickUsers(t, cap) ==
  /\ t \in timers /\ t.kind = "users" /\ t.due <= now
  /\ BagCardinality(tasks) < cap
  /\ tasks' = tasks (+) SetToBag({Task("users", t.client)})
  /\ timers' = Rearmed(timers, t)
  /\ last' = Step("tick", t.client, "users", TRUE, "none", 0)
  /\ UNCHANGED <<sideVars, gatewayVars, now, sockets, intervals,
                 clientSettings,
                 connectionRetryAttempts, bandwidthCache, lastCacheTime>>

BandwidthFailedPoisons(r) ==
  LET c == r.client
      cleared == ClearClientInterval(intervals, timers, c, "bandwidth") IN
  /\ r \in BagToSet(tasks) /\ r.feed = "bandwidth"
  /\ tasks' = tasks (-) SetToBag({r})
  /\ bandwidthCache' = NoCache
  /\ lastCacheTime' = 0
  /\ IF connectionRetryAttempts < maxRetryAttempts
     THEN /\ connectionRetryAttempts' = connectionRetryAttempts + 1
          /\ last' = Step("bandwidth-failed", c, "bandwidth",
                          Active(intervals, c, "bandwidth"), "warning", r.now)
          /\ UNCHANGED <<intervals, timers>>
     ELSE /\ intervals' = cleared.intervals
          /\ timers' = cleared.timers
          /\ last' = Step("bandwidth-failed", c, "bandwidth",
                          Active(intervals, c, "bandwidth"), "error", r.now)
          /\ UNCHANGED connectionRetryAttempts
  /\ UNCHANGED <<sideVars, gatewayVars, now, sockets, clientSettings>>

\* getBandwidthUsage throws (connect or '/interface/print' failed for good);
\* the catch block of sendBandwidthData warns, or reports the error and
\* clears the client's bandwidth interval
BandwidthFailed(r) ==
  LET c == r.client
      cleared == ClearClientInterval(intervals, timers, c, "bandwidth") IN
  /\ r \in BagToSet(tasks) /\ r.feed = "bandwidth"
  /\ tasks' = tasks (-) SetToBag({r})
  /\ IF connectionRetryAttempts < maxRetryAttempts
     THEN /\ connectionRetryAttempts' = connectionRetryAttempts + 1
          /\ last' = Step("bandwidth-failed", c, "bandwidth",
                          Active(intervals, c, "bandwidth"), "warning", r.now)
          /\ UNCHANGED <<intervals, timers>>
     ELSE /\ intervals' = cleared.intervals
          /\ timers' = cleared.timers
          /\ last' = Step("bandwidth-failed", c, "bandwidth",
                          Active(intervals, c, "bandwidth"), "error", r.now)
          /\ UNCHANGED connectionRetryAttempts
  /\ UNCHANGED <<sideVars, gatewayVars, now, sockets, clientSettings,
                 bandwidthCache, lastCacheTime>>

\* getBandwidthUsage returns the snapshot of the interfaces res (a monitor
\* that failed is dropped, it does not throw; no running interface gives an
\* empty snapshot).  Only a non-empty snapshot is cached, under the time the
\* call was entered, and only a non-empty one resets the retry counter.
BandwidthFetched(r, res) ==
  /\ r \in BagToSet(tasks) /\ r.feed = "bandwidth"
  /\ tasks' = tasks (-) SetToBag({r})
  /\ IF res # {}
     THEN /\ bandwidthCache' = [present |-> TRUE, ifaces |-> res]
          /\ lastCacheTime' = r.now
          /\ connectionRetryAttempts' = 0
     ELSE UNCHANGED <<bandwidthCache, lastCacheTime, connectionRetryAttempts>>
  /\ last' = Step("bandwidth-fetched", r.client, "bandwidth",
                  Active(intervals, r.client, "bandwidth"), "bandwidth-data",
                  r.now)
  /\ UNCHANGED <<sideVars, gatewayVars, now, sockets, intervals,
                 clientSettings, timers>>

\* getConnectedUsers settled: 'users-data' on success, 'error' on failure;
\* the users interval keeps running either way
UsersSettled(r, ok) ==
  /\ r \in BagToSet(tasks) /\ r.feed = "users"
  /\ tasks' = tasks (-) SetToBag({r})
  /\ last' = Step(IF ok THEN "users-fetched" ELSE "users-failed",
                  r.client, "users", Active(intervals, r.client, "users"),
                  IF ok THEN "users-data" ELSE "error", r.now)
  /\ UNCHANGED <<sideVars, gatewayVars, now, sockets, intervals,
                 clientSettings,
                 connectionRetryAttempts, timers, bandwidthCache,
                 lastCacheTime>>

\* time passes, by step up to limit; a timer that is due fires before the
\* clock moves
AdvanceBy(step, limit) ==
  /\ now + step <= limit
  /\ \A t \in timers : t.due > now
  /\ now' = now + step
  /\ last' = Step("time", "c1", "-", FALSE, "none", 0)
  /\ UNCHANGED <<sideVars, gatewayVars, sockets, intervals, clientSettings,
                 connectionRetryAttempts, timers, tasks, bandwidthCache,
                 lastCacheTime>>

\* ------------------------------------------------- the bandwidth history
PushHistoryKeepsOldest(h, samples) ==
  LET all == h \o samples IN
  IF Len(all) > historyLimit THEN SubSeq(all, 1, historyLimit) ELSE all

\* this.bandwidthHistory.push(...bandwidthData); if it is longer than
\* historyLimit then, this.bandwidthHistory = this.bandwidthHistory.slice(-300)
PushHistory(h, samples) ==
  LET all == h \o samples IN
  IF Len(all) > historyLimit
  THEN SubSeq(all, Len(all) - historyLimit + 1, Len(all))
  ELSE all

\* a fetch of getBandwidthUsage that completes with a snapshot of n samples
\* (one to MaxSnapshot interfaces) stores it: one synchronous block, so the
\* fetches that complete around the same time store one after the other.  A
\* sample is written as the number of its arrival.
StoreHistory(n) ==
  /\ n >= 1
  /\ samplesTaken + n <= MaxSamples
  /\ bandwidthHistory' =
       PushHistory(bandwidthHistory, [j \in 1..n |-> samplesTaken + j])
  /\ samplesTaken' = samplesTaken + n
  /\ UNCHANGED <<managerVars, gatewayVars, deviceVars, serverVars>>

\* ------------------------------------------ one-shot control operations
\* the .id the device gives a new queue
FreshQueueId(qs) ==
  CHOOSE i \in 1..(Cardinality(qs) + 1) : \A q \in qs : q.id # i

\* the operation returns {success: true, ...} or throws
Finished(result) ==
  [control EXCEPT !.pc = "idle", !.result = result, !.pending = {}]

\* a call starts: 'const conn = await this.connect()'.  One call runs at a
\* time; prev tells whether the call before was a block that succeeded.
Called(fn, ip, rx, tx) ==
  [fn |-> fn, pc |-> "connect", ip |-> ip, rx |-> rx, tx |-> tx,
   pending |-> {}, result |-> "none",
   prev |-> IF /\ control.fn = "setSpeedLimit" /\ control.result = "success"
               /\ control.rx = 0 /\ control.tx = 0
            THEN "blocked" ELSE "other",
   before |-> [queues |-> queues, addressLists |-> addressLists]]

\* setSpeedLimit(userIp, rxLimit, txLimit) is called
SetSpeedLimit(ip, rx, tx) ==
  /\ control.pc = "idle"
  /\ control' = Called("setSpeedLimit", ip, rx, tx)
  /\ UNCHANGED <<queues, addressLists, managerVars, gatewayVars,
                 historyVars, serverVars>>

\* removeSpeedLimit(userIp) is called
RemoveSpeedLimit(ip) ==
  /\ control.pc = "idle"
  /\ control' = Called("removeSpeedLimit", ip, 0, 0)
  /\ UNCHANGED <<queues, addressLists, managerVars, gatewayVars,
                 historyVars, serverVars>>

\* unblockUser(userIp) is called on its own
UnblockUserCall(ip) ==
  /\ control.pc = "idle"
  /\ control' = Called("unblockUser", ip, 0, 0)
  /\ UNCHANGED <<queues, addressLists, managerVars, gatewayVars,
                 historyVars, serverVars>>

\* connect() settles: on failure the operation throws; else setSpeedLimit
\* with both limits 0 goes to blockUserCompletely, and every other call to
\* unblockUser (the connect() calls inside find the session live)
ControlConnected(ok) ==
  /\ control.pc = "connect"
  /\ control' =
       IF ~ok THEN Finished("error")
       ELSE IF control.fn = "setSpeedLimit" /\ control.rx = 0
                 /\ control.tx = 0
       THEN [control EXCEPT !.pc = "block-filter"]
       ELSE [control EXCEPT !.pc = "unblock-1"]
  /\ UNCHANGED <<queues, addressLists, managerVars, gatewayVars,
                 historyVars, serverVars>>

\* unblockUser, list j of BlockLists: the entries of the address are printed
\* and removed; a command that fails is caught inside the loop and only
\* logged, and the loop goes on to the next list; after the last list
\* unblockUser returns {success: true}, to its caller if it has one
UnblockUser(j, ok) ==
  /\ control.pc = (IF j = 1 THEN "unblock-1" ELSE "unblock-2")
  /\ addressLists' =
       IF ok
       THEN addressLists \ {[list |-> BlockLists[j], address |-> control.ip]}
       ELSE addressLists
  /\ control' =
       IF j = 1 THEN [control EXCEPT !.pc = "unblock-2"]
       ELSE IF control.fn = "unblockUser" THEN Finished("success")
       ELSE [control EXCEPT !.pc = "queue-print"]
  /\ UNCHANGED <<queues, managerVars, gatewayVars, historyVars,
                 serverVars>>

\* what follows the removal of the old queues: setSpeedLimit adds the new
\* queue, removeSpeedLimit returns
AfterRemovals(ctl) ==
  IF ctl.fn = "setSpeedLimit"
  THEN [ctl EXCEPT !.pc = "queue-add", !.pending = {}]
  ELSE [ctl EXCEPT !.pc = "idle", !.result = "success", !.pending = {}]

\* '/queue/simple/print' with ?target: the rules to remove, or a throw
QueuePrinted(ok) ==
  LET found == {q.id : q \in {q \in queues : q.target = control.ip}} IN
  /\ control.pc = "queue-print"
  /\ control' =
       IF ~ok THEN Finished("error")
       ELSE IF found = {} THEN AfterRemovals(control)
       ELSE [control EXCEPT !.pc = "queue-remove", !.pending = found]
  /\ UNCHANGED <<queues, addressLists, managerVars, gatewayVars,
                 historyVars, serverVars>>

\* '/queue/simple/remove' of the next rule found, or a throw with the other
\* rules left in place
QueueRemoved(ok) ==
  LET id == CHOOSE i \in control.pending :
              \A k \in control.pending : i <= k IN
  /\ control.pc = "queue-remove"
  /\ IF ok
     THEN /\ queues' = {q \in queues : q.id # id}
          /\ control' =
               IF control.pending = {id} THEN AfterRemovals(control)
               ELSE [control EXCEPT !.pending = control.pending \ {id}]
     ELSE /\ control' = Finished("error")
          /\ UNCHANGED queues
  /\ UNCHANGED <<addressLists, managerVars, gatewayVars, historyVars,
                 serverVars>>

\* '/queue/simple/add' of the new rule: max-limit is rx/tx with 1 in place
\* of a 0, and 1/1 for a block.  setSpeedLimit goes on to verify,
\* blockUserCompletely returns.
QueueAdded(ok) ==
  LET blocking == control.rx = 0 /\ control.tx = 0
      limit == <<IF control.rx = 0 THEN 1 ELSE control.rx,
                 IF control.tx = 0 THEN 1 ELSE control.tx>> IN
  /\ control.pc = "queue-add"
  /\ IF ok
     THEN /\ queues' = queues \cup
                         {Queue(FreshQueueId(queues), control.ip, limit)}
          /\ control' = IF blocking THEN Finished("success")
                                    ELSE [control EXCEPT !.pc = "verify"]
     ELSE /\ control' = Finished("error")
          /\ UNCHANGED queues
  /\ UNCHANGED <<addressLists, managerVars, gatewayVars, historyVars,
                 serverVars>>

\* the '/queue/simple/print' that verifies, 2000 ms later: its result only
\* sets the flag 'applied'; a failure of the command throws
Verified(ok) ==
  /\ control.pc = "verify"
  /\ control' = Finished(IF ok THEN "success" ELSE "error")
  /\ UNCHANGED <<queues, addressLists, managerVars, gatewayVars,
                 historyVars, serverVars>>

\* blockUserCompletely, steps 1 and 2: the placeholder entry (127.0.0.1,
\* gone after 1 s, its failure ignored) and the drop rule of the filter,
\* which is printed and added if missing; neither names the address
BlockFilterReady(ok) ==
  /\ control.pc = "block-filter"
  /\ control' = IF ok THEN [control EXCEPT !.pc = "block-add"]
                      ELSE Finished("error")
  /\ UNCHANGED <<queues, addressLists, managerVars, gatewayVars,
                 historyVars, serverVars>>

\* blockUserCompletely, step 3: the address is added to api_speed_blocked;
\* the device refuses an entry it already has
BlockListed(ok) ==
  LET entry == [list |-> BlockLists[2], address |-> control.ip] IN
  /\ control.pc = "block-add"
  /\ ok => entry \notin addressLists
  /\ IF ok
     THEN /\ addressLists' = addressLists \cup {entry}
          /\ control' = [control EXCEPT !.pc = "queue-print"]
     ELSE /\ control' = Finished("error")
          /\ UNCHANGED addressLists
  /\ UNCHANGED <<queues, managerVars, gatewayVars, historyVars,
                 serverVars>>

\* ------------------------------------- the shared broadcast of server.js
\* the handle setInterval returns: one no live broadcast timer has
FreshHandle(bs) == CHOOSE i \in 1..(Cardinality(bs) + 1) : i \notin bs

\* io.on('connection'): a new socket, under an id not connected
Connection(c) ==
  /\ c \notin connectedClients
  /\ connectedClients' = connectedClients \cup {c}
  /\ isSubscribed' = [isSubscribed EXCEPT ![c] = FALSE]
  /\ UNCHANGED <<bandwidthInterval, broadcasts, awaiting, managerVars,
                 gatewayVars, historyVars, deviceVars>>

\* socket.on('subscribe-bandwidth') of server.js, for a socket not yet
\* subscribed (for one that is, the handler returns at once): the flag is
\* set and, with no interval handle stored, the handler runs sendBandwidth
\* and waits for it
ServerSubscribeBandwidth(c) ==
  /\ c \in connectedClients
  /\ ~isSubscribed[c]
  /\ isSubscribed' = [isSubscribed EXCEPT ![c] = TRUE]
  /\ IF bandwidthInterval = 0 /\ connectedClients # {}
     THEN /\ awaiting < MaxAwaiting
          /\ awaiting' = awaiting + 1
     ELSE UNCHANGED awaiting
  /\ UNCHANGED <<bandwidthInterval, connectedClients, broadcasts,
                 managerVars, gatewayVars, historyVars, deviceVars>>

\* 'await sendBandwidth()' of a subscribe handler is over (sendBandwidth
\* catches its errors): bandwidthInterval = setInterval(sendBandwidth, 15000)
BroadcastStarted ==
  /\ awaiting > 0
  /\ Cardinality(broadcasts) < MaxBroadcasts
  /\ awaiting' = awaiting - 1
  /\ broadcasts' = broadcasts \cup {FreshHandle(broadcasts)}
  /\ bandwidthInterval' = FreshHandle(broadcasts)
  /\ UNCHANGED <<connectedClients, isSubscribed, managerVars, gatewayVars,
                 historyVars, deviceVars>>

\* socket.on('disconnect') of server.js: the socket leaves the set, and the
\* interval whose handle is stored is cleared when the set is empty
ServerDisconnect(c) ==
  /\ c \in connectedClients
  /\ connectedClients' = connectedClients \ {c}
  /\ isSubscribed' = [isSubscribed EXCEPT ![c] = FALSE]
  /\ IF connectedClients' = {} /\ bandwidthInterval # 0
     THEN /\ broadcasts' = broadcasts \ {bandwidthInterval}
          /\ bandwidthInterval' = 0
     ELSE UNCHANGED <<broadcasts, bandwidthInterval>>
  /\ UNCHANGED <<awaiting, managerVars, gatewayVars, historyVars,
                 deviceVars>>

\* ---------------------------------------------------- the device gateway
RequestAlwaysDials(i) ==
  LET e == ConnectEntry(sessions, 0) IN
  /\ calls[i].phase \in {"idle", "returned", "raised"}
  /\ CanConnect(sessions, 0)
  /\ conn' = e.conn
  /\ sessions' = e.sessions
  /\ calls' = [calls EXCEPT ![i] =
       CASE e.outcome = "returned" ->
              [NoCall EXCEPT !.phase = "command", !.attempt = 1,
                             !.via = e.conn]
         [] e.outcome = "raised" ->
              [NoCall EXCEPT !.phase = "raised", !.err = "connection"]
         [] e.outcome = "awaiting" ->
              [NoCall EXCEPT !.phase = "connecting", !.awaits = e.awaits]]
  /\ UNCHANGED <<sideVars, configured, managerVars>>

\* a caller (getBandwidthUsage past its cache test, getConnectedUsers,
\* checkMikrotikConnection, ...) runs 'const conn = await this.connect()' and,
\* when that returns at once, starts retryOperation(() => conn.write(...))
Request(i) ==
  LET e == ConnectEntry(sessions, conn) IN
  /\ calls[i].phase \in {"idle", "returned", "raised"}
  /\ CanConnect(sessions, conn)
  /\ conn' = e.conn
  /\ sessions' = e.sessions
  /\ calls' = [calls EXCEPT ![i] =
       CASE e.outcome = "returned" ->
              [NoCall EXCEPT !.phase = "command", !.attempt = 1,
                             !.via = e.conn]
         [] e.outcome = "raised" ->
              [NoCall EXCEPT !.phase = "raised", !.err = "connection"]
         [] e.outcome = "awaiting" ->
              [NoCall EXCEPT !.phase = "connecting", !.awaits = e.awaits]]
  /\ UNCHANGED <<sideVars, configured, managerVars>>

ConnectSettledKeepsHandle(i, ok) ==
  LET f == calls[i] IN
  /\ f.phase \in {"connecting", "reconnecting"}
  /\ IF ok
     THEN /\ sessions' = [sessions EXCEPT ![f.awaits] = "open"]
          /\ calls' = [calls EXCEPT ![i] =
               IF f.phase = "connecting"
               THEN [f EXCEPT !.phase = "command", !.attempt = 1,
                              !.via = conn, !.awaits = 0]
               ELSE [f EXCEPT !.phase = "command",
                              !.attempt = f.attempt + 1, !.awaits = 0]]
          /\ UNCHANGED conn
     ELSE /\ sessions' = [sessions EXCEPT ![f.awaits] = "failed"]
          /\ UNCHANGED conn
          /\ calls' = [calls EXCEPT ![i] =
               [f EXCEPT !.phase = "raised", !.err = "connection",
                         !.awaits = 0]]
  /\ UNCHANGED <<sideVars, configured, managerVars>>

\* 'await this.conn.connect()' of caller i settles.  On success connect()
\* returns this.conn as it is by then, and the caller goes on: to its first
\* conn.write after connect(), to the last attempt of the operation (on the
\* session it captured before) after a forced reconnect.  On failure the
\* handle is emptied and a connection error raised, out of retryOperation too.
ConnectSettled(i, ok) ==
  LET f == calls[i] IN
  /\ f.phase \in {"connecting", "reconnecting"}
  /\ IF ok
     THEN /\ sessions' = [sessions EXCEPT ![f.awaits] = "open"]
          /\ calls' = [calls EXCEPT ![i] =
               IF f.phase = "connecting"
               THEN [f EXCEPT !.phase = "command", !.attempt = 1,
                              !.via = conn, !.awaits = 0]
               ELSE [f EXCEPT !.phase = "command",
                              !.attempt = f.attempt + 1, !.awaits = 0]]
          /\ UNCHANGED conn
     ELSE /\ sessions' = [sessions EXCEPT ![f.awaits] = "failed"]
          /\ conn' = 0
          /\ calls' = [calls EXCEPT ![i] =
               [f EXCEPT !.phase = "raised", !.err = "connection",
                         !.awaits = 0]]
  /\ UNCHANGED <<sideVars, configured, managerVars>>

\* the operation of caller i settles: its value is returned, or the attempt
\* has failed: the error is raised after the last attempt, else
\* retryOperation sleeps.  A write succeeds on an open session only (the
\* handle connect() returned may be null or a session not open).
CommandSettled(i, ok) ==
  LET f == calls[i] IN
  /\ f.phase = "command"
  /\ ok => Live(sessions, f.via)
  /\ calls' = [calls EXCEPT ![i] =
       IF ok THEN [f EXCEPT !.phase = "returned"]
       ELSE IF f.attempt = maxAttempts
       THEN [f EXCEPT !.phase = "raised", !.err = "query"]
       ELSE [f EXCEPT !.phase = "delay"]]
  /\ UNCHANGED <<sideVars, configured, conn, sessions, managerVars>>

DelayElapsedAlwaysReconnects(i) ==
  LET f == calls[i]
      e == ConnectEntry(sessions, 0) IN
  /\ f.phase = "delay"
  /\ CanConnect(sessions, 0)
  /\ conn' = e.conn
  /\ sessions' = e.sessions
  /\ calls' = [calls EXCEPT ![i] =
       IF e.outcome = "raised"
       THEN [f EXCEPT !.phase = "raised", !.err = "connection",
                      !.reconnects = f.reconnects + 1]
       ELSE [f EXCEPT !.phase = "reconnecting", !.awaits = e.awaits,
                      !.reconnects = f.reconnects + 1]]
  /\ UNCHANGED <<sideVars, configured, managerVars>>

\* the sleep of retryOperation ends.  After the attempt before the last the
\* handle is emptied (the old session is not closed) and connect() called;
\* after an earlier attempt the operation is invoked again.
DelayElapsed(i) ==
  LET f == calls[i]
      e == ConnectEntry(sessions, 0) IN
  /\ f.phase = "delay"
  /\ IF f.attempt = maxAttempts - 1
     THEN /\ CanConnect(sessions, 0)
          /\ conn' = e.conn
          /\ sessions' = e.sessions
          /\ calls' = [calls EXCEPT ![i] =
               IF e.outcome = "raised"
               THEN [f EXCEPT !.phase = "raised", !.err = "connection",
                              !.reconnects = f.reconnects + 1]
               ELSE [f EXCEPT !.phase = "reconnecting", !.awaits = e.awaits,
                              !.reconnects = f.reconnects + 1]]
     ELSE /\ calls' = [calls EXCEPT ![i] =
               [f EXCEPT !.phase = "command", !.attempt = f.attempt + 1]]
          /\ UNCHANGED <<conn, sessions>>
  /\ UNCHANGED <<sideVars, configured, managerVars>>

\* ------------------------------------------------------------ specification
\* the manager is constructed and the clients' sockets are connected
Init ==
  /\ now = 0
  /\ sockets = [c \in Clients |-> "connected"]
  /\ intervals = [c \in Clients |-> NoIntervals]
  /\ clientSettings = [c \in Clients |-> NoSettings]
  /\ connectionRetryAttempts = 0
  /\ timers = {}
  /\ tasks = EmptyBag
  /\ bandwidthCache = NoCache
  /\ lastCacheTime = 0
  /\ last = Step("init", "c1", "-", FALSE, "none", 0)
  /\ configured = TRUE
  /\ conn = 0
  /\ sessions = [s \in Sessions |-> "unused"]
  /\ calls = [i \in Calls |-> NoCall]
  /\ bandwidthHistory = <<>>
  /\ samplesTaken = 0
  /\ queues = {}
  /\ addressLists = {}
  /\ control = NoControl
  /\ bandwidthInterval = 0
  /\ connectedClients = {}
  /\ isSubscribed = [c \in Clients |-> FALSE]
  /\ broadcasts = {}
  /\ awaiting = 0

Next ==
  \/ \E c \in Clients : SubscribeBandwidth(c, MaxTasks)
  \/ \E c \in UsersViewers : SubscribeUsers(c)
  \/ \E c \in Clients : UpdateInterval(c, MaxTasks)
  \/ \E c \in Clients, k \in Kinds : Unsubscribe(c, k)
  \/ \E c \in Clients : HandleDisconnect(c)
  \/ Cleanup
  \/ \E t \in timers : TickBandwidth(t, MaxTasks)
  \/ \E t \in timers : TickUsers(t, MaxTasks)
  \/ \E r \in BagToSet(tasks) : BandwidthFailed(r)
  \/ \E r \in BagToSet(tasks), res \in SnapshotChoices : BandwidthFetched(r, res)
  \/ \E r \in BagToSet(tasks), ok \in BOOLEAN : UsersSettled(r, ok)
  \/ AdvanceBy(CoarseStep, MaxTime)

Spec == Init /\ [][Next]_vars

\* Bandwidth watchers only, with overlapping fetches allowed
NextCache ==
  \/ \E c \in Clients : SubscribeBandwidth(c, CacheTasks)
  \/ \E t \in timers : TickBandwidth(t, CacheTasks)
  \/ \E r \in BagToSet(tasks) : BandwidthFailed(r)
  \/ \E r \in BagToSet(tasks), res \in SnapshotChoices : BandwidthFetched(r, res)
  \/ AdvanceBy(CoarseStep, MaxTime)

SpecCache == Init /\ [][NextCache]_vars

\* Users watchers only
NextUsers ==
  \/ \E c \in Clients : SubscribeUsers(c)
  \/ \E c \in Clients, k \in Kinds : Unsubscribe(c, k)
  \/ \E t \in timers : TickUsers(t, CacheTasks)
  \/ \E r \in BagToSet(tasks), ok \in BOOLEAN : UsersSettled(r, ok)
  \/ AdvanceBy(CoarseStep, MaxTime)

SpecUsers == Init /\ [][NextUsers]_vars

\* The two-subscriber scenario: at time 0 client c1 subscribes to bandwidth
\* every 2000 ms and client c2 every 5000 ms; then only time, ticks and the
\* device act
NextAB ==
  \/ /\ now = 0
     /\ HandleBandwidthSubscription("c1", DefaultBandwidthInterval,
                                    DefaultInterfaces, "subscribe-bandwidth",
                                    CacheTasks)
  \/ /\ now = 0
     /\ HandleBandwidthSubscription("c2", DefaultUsersInterval,
                                    DefaultInterfaces, "subscribe-bandwidth",
                                    CacheTasks)
  \/ \E t \in timers : TickBandwidth(t, CacheTasks)
  \/ \E r \in BagToSet(tasks) : BandwidthFailed(r)
  \/ \E r \in BagToSet(tasks), res \in SnapshotChoices : BandwidthFetched(r, res)
  \/ AdvanceBy(FineStep, ScenarioTime)

SpecAB == Init /\ [][NextAB]_vars

\* One client whose options vary, over a short time
NextOptions ==
  \/ OnSubscribeBandwidth("c1", MaxTasks)
  \/ OnSubscribeUsers("c1")
  \/ OnUpdateInterval("c1", MaxTasks)
  \/ \E t \in timers : TickBandwidth(t, MaxTasks)
  \/ \E t \in timers : TickUsers(t, MaxTasks)
  \/ \E r \in BagToSet(tasks) : BandwidthFailed(r)
  \/ \E r \in BagToSet(tasks), res \in SnapshotChoices : BandwidthFetched(r, res)
  \/ \E r \in BagToSet(tasks), ok \in BOOLEAN : UsersSettled(r, ok)
  \/ AdvanceBy(SubMinimumInterval, OptionsTime)

SpecOptions == Init /\ [][NextOptions]_vars

\* The device is down: client c1 subscribes to bandwidth once, at time 0, and
\* every fetch fails, after any time
NextDown ==
  \/ /\ now = 0
     /\ ~clientSettings["c1"].present
     /\ HandleBandwidthSubscription("c1", DefaultBandwidthInterval,
                                    DefaultInterfaces, "subscribe-bandwidth",
                                    CacheTasks)
  \/ \E t \in timers : TickBandwidth(t, CacheTasks)
  \/ \E r \in BagToSet(tasks) : BandwidthFailed(r)
  \/ AdvanceBy(CoarseStep, DownTime)

SpecDown == Init /\ [][NextDown]_vars

\* The device answers or not: client c1 subscribes to bandwidth once, at
\* time 0, and every fetch fails or succeeds, after any time
NextFlaky ==
  \/ /\ now = 0
     /\ ~clientSettings["c1"].present
     /\ HandleBandwidthSubscription("c1", DefaultBandwidthInterval,
                                    DefaultInterfaces, "subscribe-bandwidth",
                                    CacheTasks)
  \/ \E t \in timers : TickBandwidth(t, CacheTasks)
  \/ \E r \in BagToSet(tasks) : BandwidthFailed(r)
  \/ \E r \in BagToSet(tasks), res \in SnapshotChoices :
       BandwidthFetched(r, res)
  \/ AdvanceBy(CoarseStep, DownTime)

SpecFlaky == Init /\ [][NextFlaky]_vars

\* The device is down for both feeds: client c1 subscribes once to bandwidth
\* and once to users, at time 0, and every fetch fails
NextDownBoth ==
  \/ /\ now = 0
     /\ ~clientSettings["c1"].present
     /\ HandleBandwidthSubscription("c1", DefaultBandwidthInterval,
                                    DefaultInterfaces, "subscribe-bandwidth",
                                    CacheTasks)
  \/ /\ now = 0
     /\ ~Active(intervals, "c1", "users")
     /\ HandleUsersSubscription("c1", DefaultBandwidthInterval,
                                "subscribe-users")
  \/ \E t \in timers : TickBandwidth(t, CacheTasks)
  \/ \E t \in timers : TickUsers(t, CacheTasks)
  \/ \E r \in BagToSet(tasks) : BandwidthFailed(r)
  \/ \E r \in BagToSet(tasks) : UsersSettled(r, FALSE)
  \/ AdvanceBy(CoarseStep, DownTime)

SpecDownBoth == Init /\ [][NextDownBoth]_vars

\* The device is down and the interval is changed: client c1 subscribes to
\* bandwidth once, at time 0, every FineStep ms, and later sends one
\* update-interval to DefaultUsersInterval; every fetch fails, after any time
NextResub ==
  \/ /\ now = 0
     /\ ~clientSettings["c1"].present
     /\ HandleBandwidthSubscription("c1", FineStep, DefaultInterfaces,
                                    "subscribe-bandwidth", CacheTasks)
  \/ /\ now > 0
     /\ \E t \in TimersOf(timers, "c1", "bandwidth") : t.interval = FineStep
     /\ UpdateClientInterval("c1", "bandwidth", DefaultUsersInterval,
                             CacheTasks)
  \/ \E t \in timers : TickBandwidth(t, CacheTasks)
  \/ \E r \in BagToSet(tasks) : BandwidthFailed(r)
  \/ AdvanceBy(FineStep, ResubTime)

SpecResub == Init /\ [][NextResub]_vars

\* The device is down for two clients: c1 and c2 each subscribe to bandwidth
\* once, at time 0, and every fetch fails, after any time
NextDownTwo ==
  \/ \E c \in Clients :
       /\ now = 0
       /\ ~clientSettings[c].present
       /\ HandleBandwidthSubscription(c, DefaultBandwidthInterval,
                                      DefaultInterfaces,
                                      "subscribe-bandwidth", CacheTasks)
  \/ \E t \in timers : TickBandwidth(t, CacheTasks)
  \/ \E r \in BagToSet(tasks) : BandwidthFailed(r)
  \/ AdvanceBy(CoarseStep, DownTime)

SpecDownTwo == Init /\ [][NextDownTwo]_vars

\* The device stays down and the client comes back: client c1 subscribes to
\* bandwidth whenever it has no bandwidth timer, at first and again after the
\* feed was stopped; every fetch fails, after any time
NextAgain ==
  \/ /\ ~Active(intervals, "c1", "bandwidth")
     /\ HandleBandwidthSubscription("c1", DefaultBandwidthInterval,
                                    DefaultInterfaces, "subscribe-bandwidth",
                                    MaxTasks)
  \/ \E t \in timers : TickBandwidth(t, MaxTasks)
  \/ \E r \in BagToSet(tasks) : BandwidthFailed(r)
  \/ AdvanceBy(CoarseStep, DownTime)

SpecAgain == Init /\ [][NextAgain]_vars

\* The shared broadcast of server.js on its own: sockets connect, subscribe
\* and disconnect, and the awaited first broadcasts complete, in any order
NextShared ==
  \/ \E c \in Clients : Connection(c)
  \/ \E c \in Clients : ServerSubscribeBandwidth(c)
  \/ BroadcastStarted
  \/ \E c \in Clients : ServerDisconnect(c)

SpecShared == Init /\ [][NextShared]_vars

\* The bandwidth history on its own: snapshots of any size are stored
NextHistory == \E n \in 1..MaxSnapshot : StoreHistory(n)

SpecHistory == Init /\ [][NextHistory]_vars

\* The control operations on their own, one call at a time, from any prior
\* configuration of the device for the address
InitControl ==
  /\ now = 0
  /\ sockets = [c \in Clients |-> "connected"]
  /\ intervals = [c \in Clients |-> NoIntervals]
  /\ clientSettings = [c \in Clients |-> NoSettings]
  /\ connectionRetryAttempts = 0
  /\ timers = {}
  /\ tasks = EmptyBag
  /\ bandwidthCache = NoCache
  /\ lastCacheTime = 0
  /\ last = Step("init", "c1", "-", FALSE, "none", 0)
  /\ configured = TRUE
  /\ conn = 0
  /\ sessions = [s \in Sessions |-> "unused"]
  /\ calls = [i \in Calls |-> NoCall]
  /\ bandwidthHistory = <<>>
  /\ samplesTaken = 0
  /\ queues \in PriorQueues
  /\ addressLists \in PriorAddressLists
  /\ control = NoControl
  /\ bandwidthInterval = 0
  /\ connectedClients = {}
  /\ isSubscribed = [c \in Clients |-> FALSE]
  /\ broadcasts = {}
  /\ awaiting = 0

NextControl ==
  \/ \E rx \in RateChoices, tx \in RateChoices : SetSpeedLimit(UserIp, rx, tx)
  \/ RemoveSpeedLimit(UserIp)
  \/ UnblockUserCall(UserIp)
  \/ \E ok \in BOOLEAN : ControlConnected(ok)
  \/ \E j \in 1..2, ok \in BOOLEAN : UnblockUser(j, ok)
  \/ \E ok \in BOOLEAN : QueuePrinted(ok)
  \/ \E ok \in BOOLEAN : QueueRemoved(ok)
  \/ \E ok \in BOOLEAN : QueueAdded(ok)
  \/ \E ok \in BOOLEAN : Verified(ok)
  \/ \E ok \in BOOLEAN : BlockFilterReady(ok)
  \/ \E ok \in BOOLEAN : BlockListed(ok)

SpecControl == InitControl /\ [][NextControl]_vars

\* The device gateway on its own: callers, handshakes, commands, retries and
\* the shutdown; the configuration may lack the host or the credentials
InitSession ==
  /\ now = 0
  /\ sockets = [c \in Clients |-> "connected"]
  /\ intervals = [c \in Clients |-> NoIntervals]
  /\ clientSettings = [c \in Clients |-> NoSettings]
  /\ connectionRetryAttempts = 0
  /\ timers = {}
  /\ tasks = EmptyBag
  /\ bandwidthCache = NoCache
  /\ lastCacheTime = 0
  /\ last = Step("init", "c1", "-", FALSE, "none", 0)
  /\ configured \in BOOLEAN
  /\ conn = 0
  /\ sessions = [s \in Sessions |-> "unused"]
  /\ calls = [i \in Calls |-> NoCall]
  /\ bandwidthHistory = <<>>
  /\ samplesTaken = 0
  /\ queues = {}
  /\ addressLists = {}
  /\ control = NoControl
  /\ bandwidthInterval = 0
  /\ connectedClients = {}
  /\ isSubscribed = [c \in Clients |-> FALSE]
  /\ broadcasts = {}
  /\ awaiting = 0

NextSession ==
  \/ \E i \in Calls : Request(i)
  \/ \E i \in Calls, ok \in BOOLEAN : ConnectSettled(i, ok)
  \/ \E i \in Calls, ok \in BOOLEAN : CommandSettled(i, ok)
  \/ \E i \in Calls : DelayElapsed(i)
  \/ Cleanup

SpecSession == InitSession /\ [][NextSession]_vars

\* ------------------------------------------------------------------ claims
SubscribeOps == {"subscribe-bandwidth", "subscribe-users", "update-interval"}

\* the step l subscribed the key (c, k)
SubscribesTo(l, c, k) == l.op \in SubscribeOps /\ l.client = c /\ l.kind = k

\* the step l unsubscribed the key (c, k): clearClientInterval on its own or
\* after the retry ceiling, handleDisconnect of c, or cleanup
UnsubscribesFrom(l, c, k) ==
  \/ l.op = "unsubscribe" /\ l.client = c /\ l.kind = k
  \/ l.op = "bandwidth-failed" /\ l.emit = "error" /\ l.client = c
       /\ k = "bandwidth"
  \/ l.op = "disconnect" /\ l.client = c
  \/ l.op = "cleanup"

\* the step l asked for the bandwidth snapshot
BandwidthRequest(l) ==
  l.kind = "bandwidth" /\ l.op \in SubscribeOps \cup {"tick"}

\* C1: every key (client, feed) has at most one live timer, and right after a
\* subscribe or interval update on a key, Active before or not, exactly one.
C1_OneTimerPerKey ==
  /\ \A c \in Clients, k \in Kinds : Cardinality(TimersOf(timers, c, k)) <= 1
  /\ (last.op \in SubscribeOps /\ last.kind \in Kinds)
       => Cardinality(TimersOf(timers, last.client, last.kind)) = 1

C1_Witness ==
  /\ last.op \in SubscribeOps /\ last.kind \in Kinds /\ last.wasActive
  /\ Cardinality(TimersOf(timers, last.client, last.kind)) = 1

\* C2: the live timers are exactly the timers the registry holds a handle
\* of, each under the key it was created for.
C2_TimersMatchRegistry ==
  /\ {t.id : t \in timers} = UNION {RegisteredIds(intervals, c) : c \in Clients}
  /\ \A t \in timers : intervals[t.client].ids[t.kind] = t.id
  /\ \A t1, t2 \in timers : t1.id = t2.id => t1 = t2

C2_Witness ==
  /\ last.op = "bandwidth-failed" /\ last.emit = "error" /\ last.wasActive
  /\ TimersOf(timers, last.client, "bandwidth") = {}
  /\ timers # {}

\* C3: a step that subscribes a key leaves one live timer for it, a step that
\* unsubscribes it leaves none, and every other step leaves the number as it
\* was: after any sequence the last of these operations decides.
C3_LastOperationDecides ==
  [][\A c \in Clients, k \in Kinds :
       LET n == Cardinality(TimersOf(timers', c, k)) IN
       IF SubscribesTo(last', c, k) THEN n = 1
       ELSE IF UnsubscribesFrom(last', c, k) THEN n = 0
       ELSE n = Cardinality(TimersOf(timers, c, k))]_vars

C3_Witness ==
  /\ last.op = "unsubscribe" /\ last.wasActive
  /\ TimersOf(timers, last.client, last.kind) = {}
  /\ \E k \in Kinds : TimersOf(timers, last.client, k) # {}

\* C4: right after handleDisconnect of a client no live timer belongs to it,
\* whatever it had subscribed to, and nothing is reported as an error.
C4_DisconnectLeavesNoTimer ==
  last.op = "disconnect" =>
    /\ \A t \in timers : t.client # last.client
    /\ last.emit = "none"

C4_Witness ==
  /\ last.op = "disconnect" /\ last.wasActive
  /\ \A t \in timers : t.client # last.client
  /\ timers # {}

\* C5: unsubscribing a key that has no timer changes nothing in the registry,
\* for no client, and reports no error.
C5_UnsubscribeIdle ==
  [][(last'.op = "unsubscribe" /\ ~last'.wasActive) =>
       /\ UNCHANGED <<intervals, timers, clientSettings,
                      connectionRetryAttempts>>
       /\ last'.emit = "none"]_vars

C5_Witness ==
  /\ last.op = "unsubscribe" /\ ~last.wasActive
  /\ \E k \in Kinds : Active(intervals, last.client, k)
  /\ \E c \in Clients : clientSettings[c].present

\* C6: no upstream bandwidth fetch is started while another one is in flight.
C6_SingleFlight ==
  \A r \in InFlight("bandwidth") :
    /\ CopiesIn(r, tasks) = 1
    /\ \A r2 \in InFlight("bandwidth") : r2 = r

\* C7, for requests that do not overlap: a bandwidth request made less than
\* cacheTimeout after the entry of a request whose upstream fetch has settled
\* (whatever it returned) starts no upstream fetch.
C7_OneFetchPerTtl ==
  [][(last.op = "bandwidth-fetched" /\ BandwidthRequest(last')
        /\ now' - last.at < cacheTimeout)
       => last'.emit # "none"]_vars

\* C8: a step in which getBandwidthUsage fails leaves the cached snapshot and
\* its time as they were, and the failure reaches the caller, who reports it.
C8_FailedFetchKeepsCache ==
  [][last'.op = "bandwidth-failed" =>
       /\ UNCHANGED <<bandwidthCache, lastCacheTime>>
       /\ last'.emit \in {"warning", "error"}]_vars

C8_Witness ==
  /\ last.op = "bandwidth-failed"
  /\ bandwidthCache.present
  /\ now - lastCacheTime >= cacheTimeout

\* C9, for the users feed: a users request made less than cacheTimeout after
\* the entry of a users request that polled the device does not poll again.
C9_UsersShareOnePoll ==
  [][(last.op = "users-fetched" /\ last'.op = "tick" /\ last'.kind = "users"
        /\ now' - last.at < cacheTimeout)
       => last'.emit # "none"]_vars

\* client c has a live bandwidth timer of the given interval
SubscribedAt(c, interval) ==
  \E t \in TimersOf(timers, c, "bandwidth") : t.interval = interval

\* C10, its upstream half: with c1 on bandwidth every 2000 ms and c2 every
\* 5000 ms, a tick polls the device only if no earlier tick's poll was
\* entered less than 2000 ms before.
C10_OnePollPerWindow ==
  [][(/\ SubscribedAt("c1", DefaultBandwidthInterval)
      /\ SubscribedAt("c2", DefaultUsersInterval)
      /\ last'.op = "tick" /\ last'.emit = "none")
       => /\ \A r \in InFlight("bandwidth") :
               r.now > 0 => now' - r.now >= DefaultBandwidthInterval
          /\ (last.op = "bandwidth-fetched" /\ last.at > 0)
               => now' - last.at >= DefaultBandwidthInterval]_vars

\* the sessions that are open on the device
OpenSessions == {s \in Sessions : sessions[s] = "open"}

\* the callers whose command is in flight on the session s
CommandsOn(s) == {i \in Calls : calls[i].phase = "command" /\ calls[i].via = s}

\* C11: a retryOperation whose operation fails twice and succeeds the third
\* time returns that value, and it has forced exactly one reconnect: none up
\* to the second failure and its sleep, one before the third invocation.
C11_ReconnectOnceBeforeThird ==
  [][\A i \in Calls :
       LET f == calls'[i] IN
       /\ f.reconnects =
            (IF \/ f.attempt = maxAttempts
                \/ /\ f.attempt = maxAttempts - 1
                   /\ f.phase \in {"reconnecting", "raised"}
             THEN 1 ELSE 0)
       /\ (calls[i].attempt = maxAttempts /\ CommandSettled(i, TRUE))
            => f.phase = "returned" /\ f.err = "-" /\ f.reconnects = 1]_vars

C11_Witness ==
  \E i \in Calls :
    /\ calls[i].phase = "returned"
    /\ calls[i].attempt = maxAttempts
    /\ calls[i].reconnects = 1

\* C12: a retryOperation that raises has invoked its operation exactly
\* maxAttempts times and raises the error of the last invocation, whether or
\* not the device can be reached for the forced reconnect.
C12_RaisesAfterThreeAttempts ==
  \A i \in Calls :
    (calls[i].phase = "raised" /\ calls[i].attempt >= 1)
      => calls[i].attempt = maxAttempts /\ calls[i].err = "query"

\* C13: connect() called while the handle holds a live session returns that
\* session at once: the handle and every session stay as they are, and the
\* caller's command goes to that session.
C13_ConnectIdempotent ==
  [][\A i \in Calls :
       (Live(sessions, conn) /\ Request(i))
         => /\ UNCHANGED <<conn, sessions>>
            /\ calls'[i].phase = "command"
            /\ calls'[i].via = conn]_vars

C13_Witness ==
  /\ Live(sessions, conn)
  /\ \A s \in Sessions : s # conn => sessions[s] = "unused"
  /\ \A i \in Calls : calls[i].phase = "command" /\ calls[i].attempt = 1
                         /\ calls[i].via = conn

\* C14: at most one session is open on the device, and it is the one the
\* handle holds.
C14_OneOpenSession ==
  /\ Cardinality(OpenSessions) <= 1
  /\ \A s \in OpenSessions : conn = s

\* C15: a connect() that fails, for an incomplete configuration or a failed
\* handshake, raises a connection error and leaves the handle empty; the
\* handle never holds a session whose handshake failed, and a connect() that
\* finds it empty starts the handshake of a session not used before.
C15_FailedConnectEmptiesHandle ==
  [][/\ \A i \in Calls :
          ((Request(i) /\ ~configured) \/ ConnectSettled(i, FALSE))
            => /\ conn' = 0
               /\ calls'[i].phase = "raised"
               /\ calls'[i].err = "connection"
     /\ \A i \in Calls :
          (Request(i) /\ configured /\ conn = 0)
            => /\ calls'[i].phase = "connecting"
               /\ sessions[calls'[i].awaits] = "unused"
               /\ sessions'[calls'[i].awaits] = "connecting"
               /\ conn' = calls'[i].awaits
     /\ conn' # 0 => sessions'[conn'] # "failed"]_vars

C15_Witness ==
  /\ \E s \in Sessions : sessions[s] = "failed"
  /\ \E i \in Calls : /\ calls[i].phase = "connecting"
                       /\ conn = calls[i].awaits
                       /\ sessions[conn] = "connecting"

\* C16: no session has two commands in flight.
C16_OneCommandInFlight ==
  \A s \in Sessions : Cardinality(CommandsOn(s)) <= 1

\* C17: a subscribe step, for either feed, delivers data at once or starts
\* the fetch whose result is delivered, before any tick of the new timer.
C17_SubscribeDeliversAtOnce ==
  [][(last'.op \in {"subscribe-bandwidth", "subscribe-users"})
       => \/ last'.emit # "none"
          \/ LET r == [feed |-> last'.kind, client |-> last'.client,
                       now |-> now]
             IN CopiesIn(r, tasks') > CopiesIn(r, tasks)]_vars

\* C18: update-interval on an Active key is a subscribe with the new interval
\* and the filter of the client's last subscribe: the same next state, with
\* one live timer of the new interval for the key and the filter as it was.
C18_UpdateIsResubscribe ==
  [][\A c \in Clients, k \in Kinds, i \in OptionIntervals :
       (Active(intervals, c, k) /\ UpdateClientInterval(c, k, i, MaxTasks))
         => /\ \E t \in timers' : /\ TimersOf(timers', c, k) = {t}
                                  /\ t.interval = i
                                  /\ t.due = now + i
            /\ clientSettings'[c].interfaces = clientSettings[c].interfaces
            /\ IF k = "bandwidth"
               THEN HandleBandwidthSubscription(c, i,
                      clientSettings[c].interfaces, "update-interval",
                      MaxTasks)
               ELSE HandleUsersSubscription(c, i, "update-interval")]_vars

C18_Witness ==
  /\ last.op = "update-interval" /\ last.kind = "bandwidth" /\ last.wasActive
  /\ clientSettings[last.client].interfaces = {"ether1"}
  /\ clientSettings[last.client].interval = SubMinimumInterval
  /\ \E t \in TimersOf(timers, last.client, "bandwidth") :
       t.interval = SubMinimumInterval

\* C19: no timer fires at an interval of SubMinimumInterval, which a client
\* may ask for in subscribe or update-interval.
C19_NoSubMinimumTimer ==
  [][\A t \in timers :
       (last'.op = "tick" /\ t \notin timers')
         => t.interval # SubMinimumInterval]_vars

\* C20: with the device down and one subscribe, a failed fetch is reported
\* by one event, a warning or an error; the error comes only once the retry
\* counter has reached maxRetryAttempts, and only while the subscription is
\* still Active, that is once.
C20_OneErrorAtCeiling ==
  [][last'.op = "bandwidth-failed" =>
       /\ last'.emit \in {"warning", "error"}
       /\ last'.emit = "error" =>
            /\ connectionRetryAttempts = maxRetryAttempts
            /\ last'.wasActive]_vars

\* the steps in which a fetch settles and its outcome is emitted
SettleOps == {"bandwidth-fetched", "bandwidth-failed", "users-fetched",
              "users-failed"}

\* C21: with one subscribe and no unsubscribe, the bandwidth key stops being
\* Active only by the error event; bandwidth data is emitted to the client
\* only while its key is Active, that is never after the error.
C21_NoDataAfterError ==
  [][last'.op = "bandwidth-fetched" => last'.wasActive]_vars

\* C22: every fetch that succeeds, with an empty snapshot too, leaves the
\* retry counter at 0.
C22_SuccessResetsCounter ==
  [][last'.op = "bandwidth-fetched" => connectionRetryAttempts' = 0]_vars

\* C23: with the device down from time 0, by time DownTime (six intervals)
\* and with every fetch settled, neither feed of the client has a timer left.
C23_FailingFeedStops ==
  (now = DownTime /\ tasks = EmptyBag /\ \A t \in timers : t.due > now)
    => \A k \in Kinds : TimersOf(timers, "c1", k) = {}

\* C24: the fetch of a tick (entered after time 0, the one subscribe being
\* at 0) that settles when its key is no longer Active emits nothing.
C24_LateResultDiscarded ==
  [][(last'.op \in SettleOps /\ last'.at > 0 /\ ~last'.wasActive)
       => last'.emit = "none"]_vars

C26_NoTickBacklog ==
  \A r \in InFlight("bandwidth") :
    r.now > 0 =>
      /\ CopiesIn(r, tasks) = 1
      /\ \A r2 \in InFlight("bandwidth") :
           (r2.now > 0 /\ r2.client = r.client) => r2 = r

\* C27: the history holds the latest samples, at most historyLimit of them,
\* in the order of their arrival: all of them until historyLimit have been
\* stored, the newest historyLimit from then on.
C27_HistoryKeepsNewest ==
  LET n == Len(bandwidthHistory) IN
  /\ n <= historyLimit
  /\ n = (IF samplesTaken < historyLimit THEN samplesTaken ELSE historyLimit)
  /\ \A j \in 1..n : bandwidthHistory[j] = samplesTaken - n + j

C27_Witness ==
  /\ samplesTaken > historyLimit
  /\ Len(bandwidthHistory) = historyLimit
  /\ bandwidthHistory[1] > 1
  /\ bandwidthHistory[historyLimit] = samplesTaken

\* what the device holds for the address ip
QueuesOf(ip) == {q \in queues : q.target = ip}
BlockEntriesOf(ip) == {e \in addressLists : e.address = ip}

\* the control operation fn has returned (result "success") or thrown
Returned(fn, result) ==
  control.pc = "idle" /\ control.fn = fn /\ control.result = result

\* C28: when setSpeedLimit(ip, rx, tx) with rx, tx > 0 has returned success,
\* from whatever the device held before (the state an earlier call left
\* included), the device holds exactly one queue for ip, of limit rx/tx, and
\* no block-list entry for ip.
C28_SetLimitConverges ==
  (Returned("setSpeedLimit", "success") /\ control.rx > 0 /\ control.tx > 0)
    => /\ QueuesOf(control.ip) # {}
       /\ \A q \in QueuesOf(control.ip) :
            /\ q.limit = <<control.rx, control.tx>>
            /\ \A q2 \in QueuesOf(control.ip) : q2 = q
       /\ BlockEntriesOf(control.ip) = {}

\* C29: when a control operation has thrown, the queues and the block-list
\* entries of the device are those it held when the operation was called.
C29_FailureLeavesDevice ==
  (control.pc = "idle" /\ control.result = "error")
    => /\ queues = control.before.queues
       /\ addressLists = control.before.addressLists

\* C30: when removeSpeedLimit(ip) has returned success after a
\* setSpeedLimit(ip, 0, 0) that returned success, the device holds no queue
\* and no block-list entry for ip.
C30_BlockThenClear ==
  (Returned("removeSpeedLimit", "success") /\ control.prev = "blocked")
    => QueuesOf(control.ip) = {} /\ BlockEntriesOf(control.ip) = {}

\* C31: when unblockUser(ip), or removeSpeedLimit(ip) which calls it, has
\* returned success, the device holds no block-list entry for ip: a print or
\* a remove of the block lists that failed made the operation throw.
C31_UnblockReportsFailure ==
  (control.pc = "idle" /\ control.result = "success"
     /\ control.fn \in {"unblockUser", "removeSpeedLimit"})
    => BlockEntriesOf(control.ip) = {}

\* C32: the failure of the handshake that the connect() at the start of an
\* operation awaits does not raise to the caller at once: the operation
\* goes on under the retry policy.
C32_ConnectFailureRetried ==
  [][\A i \in Calls :
       (calls[i].phase = "connecting" /\ ConnectSettled(i, FALSE))
         => calls'[i].phase # "raised"]_vars

\* C33: when the forced reconnect of retryOperation has succeeded, the last
\* attempt of the operation goes to the session just established.
C33_LastAttemptOnNewSession ==
  [][\A i \in Calls :
       (calls[i].phase = "reconnecting" /\ ConnectSettled(i, TRUE))
         => /\ calls'[i].phase = "command"
            /\ calls'[i].via = calls[i].awaits]_vars

\* C34: with the interval changed once (the timer of DefaultUsersInterval is
\* the replacement, and does not fire before ResubTime), the error step of a
\* tick's fetch entered before the replacement was created leaves the
\* replacement timer live.
C34_ErrorSparesReplacement ==
  [][(last'.op = "bandwidth-failed" /\ last'.emit = "error" /\ last'.at > 0)
       => \A t \in TimersOf(timers, last'.client, "bandwidth") :
            (t.interval = DefaultUsersInterval
               /\ t.due - t.interval > last'.at)
              => t \in timers']_vars

\* C35: with each client subscribed once, at time 0, the first fetch of a
\* client (the one entered at time 0) that fails is answered by the first
\* warning of the budget, whatever failed for the other client before.
C35_OwnFailuresOnly ==
  [][(last'.op = "bandwidth-failed" /\ last'.at = 0)
       => /\ last'.emit = "warning"
          /\ connectionRetryAttempts' = 1]_vars

\* C36: when a subscribe on a key that had no timer (the first one, or one
\* after the feed was stopped at the ceiling) is followed at once by the
\* failure of its own fetch, the only one in flight, the client gets a
\* warning and the new timer stays live.
C36_FreshBudgetOnResubscribe ==
  [][(/\ last.op = "subscribe-bandwidth" /\ ~last.wasActive
      /\ BagCardinality(tasks) = 1
      /\ last'.op = "bandwidth-failed")
       => /\ last'.emit = "warning"
          /\ TimersOf(timers', last.client, "bandwidth") # {}]_vars

\* C37: updateClientInterval with a type of Kinds leaves one live timer for
\* the key, of the interval asked for and held by the registry, whether the
\* key was Active or not; with any other type it emits an error and leaves
\* the timers, the registry and the settings as they were.
C37_UpdateAlwaysSubscribes ==
  [][\A c \in Clients, type \in TypeChoices, i \in OptionIntervals :
       UpdateClientInterval(c, type, i, MaxTasks)
         => IF type \in Kinds
            THEN \E t \in timers' :
                   /\ TimersOf(timers', c, type) = {t}
                   /\ t.interval = i
                   /\ intervals'[c].ids[type] = t.id
            ELSE /\ last'.emit = "error"
                 /\ UNCHANGED <<timers, intervals, clientSettings>>]_vars

C37_Witness ==
  /\ last.op = "update-interval" /\ last.kind = "bandwidth"
  /\ ~last.wasActive
  /\ connectionRetryAttempts = maxRetryAttempts
  /\ Cardinality(TimersOf(timers, last.client, "bandwidth")) = 1

\* C38: handleDisconnect of a client leaves no entry of it in this.intervals
\* and none in this.clientSettings, and leaves the entries and the timers of
\* every other client as they were.
C38_DisconnectFrame ==
  [][\A c \in Clients :
       HandleDisconnect(c)
         => /\ ~intervals'[c].present
            /\ ~clientSettings'[c].present
            /\ \A d \in Clients \ {c} :
                 /\ intervals'[d] = intervals[d]
                 /\ clientSettings'[d] = clientSettings[d]
                 /\ {t \in timers' : t.client = d}
                      = {t \in timers : t.client = d}]_vars

C38_Witness ==
  /\ last.op = "disconnect" /\ last.wasActive
  /\ ~intervals[last.client].present
  /\ ~clientSettings[last.client].present
  /\ \E d \in Clients \ {last.client} :
       /\ clientSettings[d].present
       /\ \A k \in Kinds : TimersOf(timers, d, k) # {}

\* C39: at most one broadcast interval of server.js is live, and it is the
\* one whose handle bandwidthInterval holds.
C39_OneBroadcastInterval ==
  /\ Cardinality(broadcasts) <= 1
  /\ \A h \in broadcasts : bandwidthInterval = h

\* C40: while no client is connected, no broadcast interval of server.js is
\* live.
C40_NoBroadcastWithoutClients ==
  connectedClients = {} => broadcasts = {}
====
